---- MODULE Spec2Model ----
(***************************************************************************)
(* Client-side session layer of the recruitment frontend:                  *)
(*   DjangoAPI      (src/frontend/django-integration.js)                   *)
(*   RecruitmentAPI (src/frontend/api-client.js)                           *)
(* Both classes share the browser's localStorage and window.location.      *)
(*                                                                         *)
(* Every logical task (one top-level call made by the page) is a stack of  *)
(* suspended async frames plus at most one fetch in flight.  JavaScript    *)
(* runs a continuation to its next await without interleaving, so one      *)
(* action is: a response arrives and the continuations run until the task  *)
(* sends its next fetch or settles.  A response arrives with its body.     *)
(***************************************************************************)
EXTENDS Integers, Sequences, FiniteSets, TLC

VARIABLES
    storage,      \* localStorage: authToken, refreshToken, user
    location,     \* window.location.href
    csrfToken,    \* DjangoAPI.csrfToken
    csrfPending,  \* the constructor's init() -> getCsrfToken() has not settled
    rtoken,       \* RecruitmentAPI.token (in-memory copy of the access token)
    failed,       \* a refresh failure has ended the session stored last
    loggedOut,    \* logout() has cleared the session and no login has succeeded since
    tasks,        \* per logical task: frame stack, fetch in flight, counters
    log,          \* frames that settled during the last step, in order
    started,      \* number of top-level calls the page has made
    ws,           \* the page's DjangoWebSocket object and its WebSocket
    last          \* the synchronous call made by the last step: name, argument, outcome

\* the state of the two HTTP clients
sessionVars ==
    <<storage, location, csrfToken, csrfPending, rtoken, failed, loggedOut, tasks, log,
      started>>

vars ==
    <<storage, location, csrfToken, csrfPending, rtoken, failed, loggedOut, tasks, log,
      started, ws, last>>

----------------------------------------------------------------------------
(* Bounds of the model *)

\* refreshToken() calls suspended at one time, over all the page's calls
MaxDepth == 3

\* the top-level calls the page makes, in the order it makes them; the second
\* may begin while the first is suspended or after it has settled
Tasks == {1, 2}

----------------------------------------------------------------------------
(* Values *)

\* JavaScript null: also what localStorage.getItem gives for a missing key
null == "<null>"

\* JavaScript undefined: also a field an object does not have
undefined == "<undefined>"

Truthy(v) == v \notin {null, undefined, ""}

\* the last step made no synchronous call that is recorded
NoCall == [fn |-> "none", arg |-> <<>>, out |-> <<>>]

EmptyStorage == [authToken |-> null, refreshToken |-> null, user |-> null]

\* a session left by an earlier login
StoredSession == [authToken |-> "A1", refreshToken |-> "R1", user |-> "U1"]

AppPage == "/index.html"
DjangoLoginPage == "/login.html"
RecruitmentLoginPage == "/login"

\* DjangoAPI endpoints
LoginURL == "/api/accounts/login/"
RefreshURL == "/api/accounts/token/refresh/"
LogoutURL == "/api/accounts/logout/"
CandidatesURL == "/api/candidates/?"
UploadURL == "/api/documents/upload/"

\* the reports the page may download, and downloadReport's endpoint
ReportIds == {1, 2, 3}

DownloadURL(reportId) == "/api/reports/" \o ToString(reportId) \o "/download/"

\* RecruitmentAPI endpoints (relative to its baseURL .../api)
RLoginURL == "/auth/token/"
RRefreshURL == "/auth/token/refresh/"
RStatsURL == "/dashboard/stats/"
RUploadURL == "/candidates/upload-cv/"

\* error messages
NoRefreshTokenMsg == "No refresh token available"
RequestFailedMsg == "Request failed"
NetworkErrorMsg == "TypeError: Failed to fetch"
UnauthorizedMsg == "No autorizado"
UploadFailedMsg == "Upload failed"
NotAFunctionMsg == "TypeError: response.blob is not a function"

----------------------------------------------------------------------------
(* HTTP headers: a header that is not set has the value Absent *)

HeaderNames == {"Content-Type", "Accept", "X-CSRFToken", "Authorization"}

Absent == <<>>

Bearer(token) == <<"Bearer", token>>

NoHeaders == [k \in HeaderNames |-> Absent]

\* DjangoAPI.getHeaders(includeAuth = true)
GetHeaders(csrf, s) ==
    [k \in HeaderNames |->
        CASE k = "Content-Type" -> <<"application/json">>
          [] k = "Accept" -> <<"application/json">>
          [] k = "X-CSRFToken" -> IF Truthy(csrf) THEN <<csrf>> ELSE Absent
          [] k = "Authorization" ->
                IF Truthy(s.authToken) THEN Bearer(s.authToken) ELSE Absent
          [] OTHER -> Absent]

\* RecruitmentAPI.getHeaders()
RGetHeaders(token) ==
    [k \in HeaderNames |->
        CASE k = "Content-Type" -> <<"application/json">>
          [] k = "Authorization" -> IF Truthy(token) THEN Bearer(token) ELSE Absent
          [] OTHER -> Absent]

\* { ...a, ...b }
Spread(a, b) == [k \in HeaderNames |-> IF b[k] # Absent THEN b[k] ELSE a[k]]

----------------------------------------------------------------------------
(* Requests and responses *)

\* the options argument of request(); hasHeaders: options.headers is given
Options(method, body, hasHeaders, headers) ==
    [method |-> method, body |-> body, hasHeaders |-> hasHeaders, headers |-> headers]

NoBody == <<>>

PlainOptions == Options(undefined, NoBody, FALSE, NoHeaders)

\* uploadFile / analyzeCV: only an Authorization header, FormData body
UploadOptions(s) ==
    Options("POST", <<"FormData">>, TRUE,
            [NoHeaders EXCEPT !["Authorization"] = Bearer(s.authToken)])

NoMsg == [url |-> "", method |-> undefined, body |-> NoBody, headers |-> NoHeaders]

\* the fields the clients read from a parsed body or a Response, none present
EmptyBody ==
    [detail |-> undefined, message |-> undefined, access |-> undefined,
     refresh |-> undefined, access_token |-> undefined,
     refresh_token |-> undefined, user |-> undefined, blob |-> undefined]

\* error bodies: both fields, message only, neither (also a non-JSON body: {})
ErrorBodies ==
    { [EmptyBody EXCEPT !.detail = "detail text", !.message = "message text"],
      [EmptyBody EXCEPT !.message = "message text"],
      EmptyBody }

\* the two login response shapes of the backend contract
LoginBodies ==
    { [EmptyBody EXCEPT !.access_token = "A3", !.refresh_token = "R3", !.user = "U3"],
      [EmptyBody EXCEPT !.access = "A3", !.refresh = "R3", !.user = "U3"] }

RefreshBodies == { [EmptyBody EXCEPT !.access = "A2"] }

\* what handleResponse returns for a body that is not JSON: the Response
\* itself, which has a blob() method
RawResponse == [EmptyBody EXCEPT !.blob = "function"]

\* a report is answered as a file, or as JSON
OkBodies(url) ==
    CASE url \in {LoginURL, RLoginURL} -> LoginBodies
      [] url \in {RefreshURL, RRefreshURL} -> RefreshBodies
      [] url \in {DownloadURL(id) : id \in ReportIds} -> {RawResponse, EmptyBody}
      [] OTHER -> {EmptyBody}

NoResp == [kind |-> "none", status |-> 0, statusText |-> "", body |-> EmptyBody]

NetworkFailure == [kind |-> "neterr", status |-> 0, statusText |-> "", body |-> EmptyBody]

Http(status, statusText, body) ==
    [kind |-> "http", status |-> status, statusText |-> statusText, body |-> body]

\* response.ok
Ok(resp) == resp.status >= 200 /\ resp.status <= 299

\* the reason phrase a server writes on the status line (HTTP/1.1)
ReasonPhrase(status) ==
    CASE status = 200 -> "OK"
      [] status = 401 -> "Unauthorized"
      [] status = 403 -> "Forbidden"
      [] status = 500 -> "Internal Server Error"

\* response.statusText is what the server put on the status line: its
\* reason phrase, or nothing (HTTP/2 has no reason phrase)
StatusTexts(status) == {ReasonPhrase(status), ""}

\* what the backend may answer to a call to url
Responses(url) ==
    {Http(200, st, b) : st \in StatusTexts(200), b \in OkBodies(url)}
    \cup UNION { {Http(status, st, b) : st \in StatusTexts(status), b \in ErrorBodies} :
                  status \in {401, 403, 500} }

\* status and kind of a response, without its status text and body
Brief(resp) == [resp EXCEPT !.statusText = "", !.body = EmptyBody]

\* the settled value of a frame: a returned body or a thrown Error(msg)
Returned(body) == [ok |-> TRUE, msg |-> "", status |-> 0, body |-> body]
Thrown(msg) == [ok |-> FALSE, msg |-> msg, status |-> 0, body |-> EmptyBody]
\* RecruitmentAPI: new Error(`Error ${status}: ${statusText}`)
ThrownStatus(status, statusText) ==
    [ok |-> FALSE, msg |-> "Error " \o ToString(status) \o ": " \o statusText,
     status |-> status, body |-> EmptyBody]
NoResult == [ok |-> FALSE, msg |-> "", status |-> 0, body |-> EmptyBody]

----------------------------------------------------------------------------
(* Frames of the async call stack *)

\* localStorage.setItem(key, value) stores String(value)
ToStored(v) ==
    CASE v = undefined -> "undefined"
      [] v = null -> "null"
      [] OTHER -> v

\* JSON.stringify(value); undefined stays undefined
JSONStringify(v) ==
    CASE v = undefined -> undefined
      [] v = null -> "null"
      [] OTHER -> "json(" \o v \o ")"

Frame(fn, url, config, m) ==
    [fn |-> fn,               \* the async function this frame runs
     pc |-> "start",          \* request: fetch1, refresh, fetch2
     url |-> url,
     config |-> config,       \* request: the config object handed to fetch
     sent1 |-> NoMsg,         \* request: the first message sent
     first |-> NoResp,        \* request: the first response received (no body)
     sends |-> 0,             \* request: fetches made by this frame
     rcalls |-> 0,            \* request: calls of this.refreshToken()
     rres |-> "none",         \* request: how that refreshToken() settled
     rtok |-> undefined,      \* request: response.access the refresh returned
     base |-> m.calls,        \* fetches made by the task when the frame began
     entryRT |-> m.storage.refreshToken]  \* stored refresh token at entry

Top(m) == m.stack[Len(m.stack)]

SetTop(m, f) == [m EXCEPT !.stack[Len(m.stack)] = f]

Push(m, f) == [m EXCEPT !.stack = Append(@, f)]

\* number of refreshToken() frames suspended in the stacks
Depth(stacks) ==
    Cardinality(UNION { {<<t, i>> : i \in {j \in 1..Len(stacks[t].stack) :
                                              stacks[t].stack[j].fn = "refreshToken"}} :
                        t \in DOMAIN stacks })

\* what is recorded of a frame when it settles with result r
Summary(m, f, r) ==
    [task |-> m.task, fn |-> f.fn, url |-> f.url, first |-> f.first,
     sends |-> f.sends, rcalls |-> f.rcalls, rres |-> f.rres,
     http |-> m.calls - f.base, entryRT |-> f.entryRT, result |-> r,
     storage |-> m.storage, location |-> m.location,
     \* the response this step delivered, if any: its status and body
     resp |-> [m.resp EXCEPT !.statusText = ""],
     top |-> Len(m.stack) = 1,   \* the frame is the task's top-level call
     clears |-> m.clears, navs |-> m.navs, repeats |-> m.repeats]

----------------------------------------------------------------------------
(* DjangoAPI *)

\* request(): const config = { credentials, headers: this.getHeaders(), ...options }
\* followed by the "merge headers" step
BuildConfig(csrf, s, options) ==
    LET spread == IF options.hasHeaders THEN options.headers ELSE GetHeaders(csrf, s)
        merged == IF options.hasHeaders THEN Spread(spread, options.headers) ELSE spread
    IN [url |-> "", method |-> options.method, body |-> options.body, headers |-> merged]

\* await fetch(url, config): the top frame sends its request and suspends
Fetch(m) ==
    LET f == Top(m)
        msg == [f.config EXCEPT !.url = f.url]
        g == [f EXCEPT !.sends = @ + 1,
                       !.sent1 = IF f.sends = 0 THEN msg ELSE @]
    IN [SetTop(m, g) EXCEPT !.flight = msg, !.calls = @ + 1]

\* request(endpoint, options) up to its first await
Request(m, url, options) ==
    LET f == [Frame("request", url, BuildConfig(m.csrf, m.storage, options), m)
                EXCEPT !.pc = "fetch1"]
    IN Fetch(Push(m, f))

\* a client that treats every error status as an expired token
IsUnauthorizedAnyError(resp) == resp.status >= 400

\* response.status === 401
IsUnauthorized(resp) == resp.status = 401

\* a client that also refreshes when the retry answers 401
ShouldRefreshAlways(f, resp) == IsUnauthorized(resp)

\* the 401 branch is taken for the first response only: the retry's response
\* goes straight to handleResponse
ShouldRefresh(f, resp) == f.pc = "fetch1" /\ IsUnauthorized(resp)

\* the code awaiting the fetch of frame f reads resp.statusText:
\* RecruitmentAPI.request does, for a status that is neither ok nor 401
ReadsStatusText(f, resp) == f.fn = "rrequest" /\ ~Ok(resp) /\ resp.status # 401

\* it reads the body: every caller reads that of an ok response, and
\* DjangoAPI.request hands an error response to handleResponse unless it is
\* the 401 that sends it to refreshToken()
ReadsBody(f, resp) == Ok(resp) \/ (f.fn = "request" /\ ~ShouldRefresh(f, resp))

\* the answers to the fetch of frame f: responses that differ only in a part
\* the awaiting code does not read are one case, drawn once, with the reason
\* phrase and the empty body.  The number of an error status other than 401
\* is read by RecruitmentAPI.request alone, which prints it; the other callers
\* test response.ok and status === 401, so for them the error bodies are
\* drawn with 403, and 500 with the empty body
Answers(f, url) ==
    {resp \in Responses(url) :
        /\ ReadsStatusText(f, resp) \/ resp.statusText = ReasonPhrase(resp.status)
        /\ ReadsBody(f, resp) \/ resp.body = EmptyBody
        /\ f.fn = "rrequest" \/ resp.status # 500 \/ resp.body = EmptyBody}

\* handleResponse: errorData.detail || errorData.message || 'Request failed'
ErrorMessage(body) ==
    IF Truthy(body.detail) THEN body.detail
    ELSE IF Truthy(body.message) THEN body.message
    ELSE RequestFailedMsg

\* a client that skips the precondition
NoRefreshTokenUnchecked(s) == FALSE

\* refreshToken(): if (!refreshToken) throw ...
NoRefreshToken(s) == ~Truthy(s.refreshToken)

\* localStorage.clear(); window.location.href = '/login.html'
ClearAndRedirect(m) ==
    [m EXCEPT !.storage = EmptyStorage, !.location = DjangoLoginPage,
              !.clears = @ + 1, !.navs = @ + 1]

\* a client that drops only the access token when the refresh fails
RefreshFailedKeepsSession(m) ==
    [m EXCEPT !.storage.authToken = null, !.location = DjangoLoginPage,
              !.clears = @ + 1, !.navs = @ + 1, !.failed = TRUE]

\* refreshToken(), catch block: clear, redirect; the caller rethrows
RefreshFailed(m) ==
    [ClearAndRedirect(m) EXCEPT !.failed = TRUE,
                                !.repeats = IF m.failed THEN @ + 1 ELSE @]

\* refreshToken(), after the request resolved
RefreshSucceeded(m, body) ==
    [m EXCEPT !.storage.authToken = ToStored(body.access)]

\* login(), after the request resolved
LoginSucceeded(m, body) ==
    IF Truthy(body.access_token)
    THEN [m EXCEPT !.failed = FALSE, !.loggedOut = FALSE,
                   !.storage =
                        [authToken |-> ToStored(body.access_token),
                         refreshToken |-> ToStored(body.refresh_token),
                         user |-> ToStored(JSONStringify(body.user))]]
    ELSE m

\* request(), after refreshToken() resolved: rebuild the headers
RetryConfig(m, config) == [config EXCEPT !.headers = GetHeaders(m.csrf, m.storage)]

----------------------------------------------------------------------------
(* RecruitmentAPI *)

RBuildConfig(token, options) ==
    [url |-> "", method |-> options.method, body |-> options.body,
     headers |-> IF options.hasHeaders THEN options.headers ELSE RGetHeaders(token)]

RRequest(m, url, options) ==
    LET f == [Frame("rrequest", url, RBuildConfig(m.rtoken, options), m)
                EXCEPT !.pc = "fetch1"]
    IN Fetch(Push(m, f))

\* handleUnauthorized()
HandleUnauthorized(m) ==
    [m EXCEPT !.storage.authToken = null, !.location = RecruitmentLoginPage,
              !.clears = @ + 1, !.navs = @ + 1]

RLoginSucceeded(m, body) ==
    IF Truthy(body.access)
    THEN [m EXCEPT !.failed = FALSE, !.loggedOut = FALSE,
                   !.rtoken = body.access,
                   !.storage.authToken = ToStored(body.access),
                   !.storage.refreshToken = ToStored(body.refresh)]
    ELSE m

RRefreshSucceeded(m, body) ==
    [m EXCEPT !.rtoken = body.access, !.storage.authToken = ToStored(body.access)]

\* uploadCV(file): a fetch of its own, with `Bearer ${this.token}` as only header
UploadCV(m) ==
    LET config == [url |-> "", method |-> "POST", body |-> <<"FormData">>,
                   headers |-> [NoHeaders EXCEPT !["Authorization"] = Bearer(m.rtoken)]]
        f == [Frame("uploadCV", RUploadURL, config, m) EXCEPT !.pc = "fetch1"]
    IN Fetch(Push(m, f))

----------------------------------------------------------------------------
(* Running the continuations *)

RECURSIVE Complete(_, _), Resume(_, _)

\* the top frame settles with r: it is popped and its caller resumes
Complete(m, r) ==
    LET f == Top(m)
        popped == [m EXCEPT !.stack = SubSeq(@, 1, Len(@) - 1),
                            !.log = Append(@, Summary(m, f, r))]
    IN IF popped.stack = <<>> THEN popped ELSE Resume(popped, r)

\* the top frame, suspended in an await of its callee, receives r
Resume(m, r) ==
    LET f == Top(m) IN
    CASE f.fn = "request" ->
            \* await this.refreshToken() at line 86
            IF r.ok
            THEN Fetch(SetTop(m, [f EXCEPT !.pc = "fetch2", !.rres = "resolved",
                                           !.rtok = r.body.access,
                                           !.config = RetryConfig(m, f.config)]))
            ELSE Complete(SetTop(m, [f EXCEPT !.rres = "rejected"]), r)
      [] f.fn = "refreshToken" ->
            IF r.ok THEN Complete(RefreshSucceeded(m, r.body), r)
            ELSE Complete(RefreshFailed(m), r)
      [] f.fn = "login" ->
            IF r.ok THEN Complete(LoginSucceeded(m, r.body), r) ELSE Complete(m, r)
      [] f.fn = "logout" ->
            \* catch swallows, finally clears and redirects
            Complete([ClearAndRedirect(m) EXCEPT !.loggedOut = TRUE], Returned(EmptyBody))
      [] f.fn = "rlogin" ->
            IF r.ok THEN Complete(RLoginSucceeded(m, r.body), r) ELSE Complete(m, r)
      [] f.fn = "rrefresh" ->
            IF r.ok THEN Complete(RRefreshSucceeded(m, r.body), r) ELSE Complete(m, r)
      [] f.fn = "downloadReport" ->
            \* await this.request(...) at line 301, then response.blob() at 306:
            \* a parsed JSON body has no blob()
            IF ~r.ok THEN Complete(m, r)
            ELSE IF r.body.blob = undefined THEN Complete(m, Thrown(NotAFunctionMsg))
            ELSE [SetTop(m, [f EXCEPT !.pc = "blob"]) EXCEPT !.flight = NoMsg]

\* refreshToken() up to its first await
RefreshToken(m) ==
    LET pushed == Push(m, Frame("refreshToken", RefreshURL, NoMsg, m)) IN
    IF NoRefreshToken(m.storage)
    THEN Complete(pushed, Thrown(NoRefreshTokenMsg))
    ELSE Request(pushed, RefreshURL,
                 Options("POST", <<"refresh", m.storage.refreshToken>>, FALSE, NoHeaders))

\* RecruitmentAPI.refreshToken() up to its first await
RRefreshToken(m) ==
    LET pushed == Push(m, Frame("rrefresh", RRefreshURL, NoMsg, m)) IN
    IF ~Truthy(m.storage.refreshToken)
    THEN Complete(pushed, Thrown(NoRefreshTokenMsg))
    ELSE RRequest(pushed, RRefreshURL,
                  Options("POST", <<"refresh", m.storage.refreshToken>>, FALSE, NoHeaders))

\* DjangoAPI.request: the continuation after await fetch(url, config)
OnResponse(m, resp) ==
    LET f == Top(m)
        g == IF f.first = NoResp THEN [f EXCEPT !.first = Brief(resp)] ELSE f
        n == SetTop(m, g)
    IN IF resp.kind = "neterr"
       THEN Complete(n, Thrown(NetworkErrorMsg))
       ELSE IF ShouldRefresh(g, resp)
       THEN RefreshToken(SetTop(n, [g EXCEPT !.pc = "refresh", !.rcalls = @ + 1]))
       ELSE IF ~Ok(resp)
       THEN Complete(n, Thrown(ErrorMessage(resp.body)))
       ELSE Complete(n, Returned(resp.body))

\* RecruitmentAPI.request: the continuation after await fetch(url, config)
ROnResponse(m, resp) ==
    LET f == Top(m)
        n == SetTop(m, IF f.first = NoResp THEN [f EXCEPT !.first = Brief(resp)] ELSE f)
    IN IF resp.kind = "neterr"
       THEN Complete(n, Thrown(NetworkErrorMsg))
       ELSE IF ~Ok(resp)
       THEN IF resp.status = 401
            THEN Complete(HandleUnauthorized(n), Thrown(UnauthorizedMsg))
            ELSE Complete(n, ThrownStatus(resp.status, resp.statusText))
       ELSE Complete(n, Returned(resp.body))

\* RecruitmentAPI.uploadCV: the .then() after its fetch
UploadCVOnResponse(m, resp) ==
    LET f == Top(m)
        n == SetTop(m, IF f.first = NoResp THEN [f EXCEPT !.first = Brief(resp)] ELSE f)
    IN IF resp.kind = "neterr"
       THEN Complete(n, Thrown(NetworkErrorMsg))
       ELSE IF ~Ok(resp)
       THEN Complete(n, Thrown(UploadFailedMsg))
       ELSE Complete(n, Returned(resp.body))

----------------------------------------------------------------------------
(* Characters and strings *)

\* A string the program takes apart is a sequence of characters.  A character
\* is one UTF-16 code unit: a printable ASCII character is written as itself
\* (the grave accent, which a TLA+ string cannot hold, as "U+0060"), tab, line
\* feed, form feed and carriage return as "\t", "\n", "\f", "\r", and any
\* other code unit as "U+" and its four hexadecimal digits.

\* the printable ASCII characters, in code order from 32
AsciiPrintable ==
    <<" ", "!", "\"", "#", "$", "%", "&", "'", "(", ")", "*", "+", ",", "-", ".", "/",
      "0", "1", "2", "3", "4", "5", "6", "7", "8", "9", ":", ";", "<", "=", ">", "?",
      "@", "A", "B", "C", "D", "E", "F", "G", "H", "I", "J", "K", "L", "M", "N", "O",
      "P", "Q", "R", "S", "T", "U", "V", "W", "X", "Y", "Z", "[", "\\", "]", "^", "_",
      "U+0060", "a", "b", "c", "d", "e", "f", "g", "h", "i", "j", "k", "l", "m", "n", "o",
      "p", "q", "r", "s", "t", "u", "v", "w", "x", "y", "z", "{", "|", "}", "~">>

HexDigit(n) ==
    <<"0", "1", "2", "3", "4", "5", "6", "7", "8", "9",
      "A", "B", "C", "D", "E", "F">>[n + 1]

\* the character with code unit n
CharOf(n) ==
    CASE n \in 32..126 -> AsciiPrintable[n - 31]
      [] n = 9 -> "\t"
      [] n = 10 -> "\n"
      [] n = 12 -> "\f"
      [] n = 13 -> "\r"
      [] OTHER -> "U+" \o HexDigit(n \div 4096) \o HexDigit((n \div 256) % 16)
                        \o HexDigit((n \div 16) % 16) \o HexDigit(n % 16)

\* the code unit of character c
CodeOf(c) == CHOOSE n \in 0..65535 : CharOf(n) = c

Digits == {"0", "1", "2", "3", "4", "5", "6", "7", "8", "9"}

Letters == {CharOf(n) : n \in (65..90) \cup (97..122)}

\* the value of a hexadecimal digit, -1 for any other character
HexValue(c) ==
    IF c \in Digits THEN CodeOf(c) - 48
    ELSE IF c \in {"A", "B", "C", "D", "E", "F"} THEN CodeOf(c) - 55
    ELSE IF c \in {"a", "b", "c", "d", "e", "f"} THEN CodeOf(c) - 87
    ELSE -1

\* white space and line terminators: \s of a regular expression, and what
\* String.prototype.trim and Number() strip
Whitespace ==
    {CharOf(n) : n \in {9, 10, 11, 12, 13, 32, 160, 5760, 8232, 8233, 8239, 8287,
                        12288, 65279} \cup (8192..8202)}

\* the string of a sequence of characters
RECURSIVE Text(_)
Text(chars) == IF chars = <<>> THEN "" ELSE Head(chars) \o Text(Tail(chars))

\* the characters left when leading and trailing whitespace is removed
RECURSIVE TrimLeft(_)
TrimLeft(chars) ==
    IF chars # <<>> /\ chars[1] \in Whitespace THEN TrimLeft(Tail(chars)) ELSE chars

RECURSIVE TrimRight(_)
TrimRight(chars) ==
    IF chars # <<>> /\ chars[Len(chars)] \in Whitespace
    THEN TrimRight(SubSeq(chars, 1, Len(chars) - 1))
    ELSE chars

\* String.prototype.split(sep) for a one-character separator: the pieces
\* between the separators, in order
RECURSIVE Split(_, _)
Split(chars, sep) ==
    IF \A i \in 1..Len(chars) : chars[i] # sep THEN <<chars>>
    ELSE LET at == CHOOSE i \in 1..Len(chars) :
                        chars[i] = sep /\ \A j \in 1..(i - 1) : chars[j] # sep
         IN <<SubSeq(chars, 1, at - 1)>> \o Split(SubSeq(chars, at + 1, Len(chars)), sep)

\* Array.prototype.join(sep)
RECURSIVE Join(_, _)
Join(parts, sep) ==
    IF parts = <<>> THEN <<>>
    ELSE IF Len(parts) = 1 THEN parts[1]
    ELSE parts[1] \o <<sep>> \o Join(Tail(parts), sep)

\* the UTF-8 bytes of a code point
UTF8(cp) ==
    IF cp < 128 THEN <<cp>>
    ELSE IF cp < 2048 THEN <<192 + (cp \div 64), 128 + (cp % 64)>>
    ELSE IF cp < 65536
    THEN <<224 + (cp \div 4096), 128 + ((cp \div 64) % 64), 128 + (cp % 64)>>
    ELSE <<240 + (cp \div 262144), 128 + ((cp \div 4096) % 64),
           128 + ((cp \div 64) % 64), 128 + (cp % 64)>>

\* the number of bytes of the UTF-8 sequence that begins with byte b, 0 when
\* no sequence begins with it
UTF8Length(b) ==
    IF b < 0 THEN 0
    ELSE IF b < 128 THEN 1
    ELSE IF b \in 194..223 THEN 2
    ELSE IF b \in 224..239 THEN 3
    ELSE IF b \in 240..244 THEN 4
    ELSE 0

\* bytes is the UTF-8 encoding of one code point
WellFormedUTF8(bytes) ==
    LET n == Len(bytes)
        second == CASE bytes[1] = 224 -> 160..191
                    [] bytes[1] = 237 -> 128..159
                    [] bytes[1] = 240 -> 144..191
                    [] bytes[1] = 244 -> 128..143
                    [] OTHER -> 128..191
    IN /\ n = UTF8Length(bytes[1])
       /\ n >= 2 => bytes[2] \in second
       /\ \A j \in 3..n : bytes[j] \in 128..191

\* the code point a well-formed sequence encodes
CodePoint(bytes) ==
    CASE Len(bytes) = 1 -> bytes[1]
      [] Len(bytes) = 2 -> ((bytes[1] - 192) * 64) + (bytes[2] - 128)
      [] Len(bytes) = 3 ->
            ((bytes[1] - 224) * 4096) + ((bytes[2] - 128) * 64) + (bytes[3] - 128)
      [] OTHER ->
            ((bytes[1] - 240) * 262144) + ((bytes[2] - 128) * 4096)
                + ((bytes[3] - 128) * 64) + (bytes[4] - 128)

\* the UTF-16 code units of a code point
CodeUnits(cp) ==
    IF cp < 65536 THEN <<CharOf(cp)>>
    ELSE <<CharOf(55296 + ((cp - 65536) \div 1024)),
           CharOf(56320 + ((cp - 65536) % 1024))>>

\* the byte written as %XY at position i of chars, -1 when there is none
ByteAt(chars, i) ==
    IF /\ i + 2 <= Len(chars)
       /\ chars[i] = "%"
       /\ HexValue(chars[i + 1]) >= 0
       /\ HexValue(chars[i + 2]) >= 0
    THEN (16 * HexValue(chars[i + 1])) + HexValue(chars[i + 2])
    ELSE -1

\* decodeURIComponent(chars) from position i: the decoded characters, or
\* ok = FALSE where the function throws URIError
RECURSIVE Decode(_, _)
Decode(chars, i) ==
    IF i > Len(chars) THEN [ok |-> TRUE, chars |-> <<>>]
    ELSE IF chars[i] # "%"
    THEN LET rest == Decode(chars, i + 1)
         IN IF rest.ok THEN [ok |-> TRUE, chars |-> <<chars[i]>> \o rest.chars]
            ELSE rest
    ELSE LET n == UTF8Length(ByteAt(chars, i))
             bytes == [j \in 1..n |-> ByteAt(chars, i + (3 * (j - 1)))]
         IN IF n = 0 \/ ~WellFormedUTF8(bytes) THEN [ok |-> FALSE, chars |-> <<>>]
            ELSE LET rest == Decode(chars, i + (3 * n))
                 IN IF rest.ok
                    THEN [ok |-> TRUE,
                          chars |-> CodeUnits(CodePoint(bytes)) \o rest.chars]
                    ELSE rest

DecodeURIComponent(chars) == Decode(chars, 1)

----------------------------------------------------------------------------
(* DjangoAPI.getCsrfToken *)

\* the characters of 'csrftoken' and of String(undefined)
CsrfCookieName == <<"c", "s", "r", "f", "t", "o", "k", "e", "n">>

UndefinedText == <<"u", "n", "d", "e", "f", "i", "n", "e", "d">>

\* document.cookie: empty, the csrftoken cookie alone and behind another
\* cookie, its value holding an escaped space, and with an escape that is
\* not UTF-8
CookieJars ==
    { <<>>,
      <<"c", "s", "r", "f", "t", "o", "k", "e", "n", "=", "a", "%", "2", "0", "b">>,
      <<"s", "e", "s", "s", "i", "o", "n", "i", "d", "=", "s", "1", ";", " ", "c", "s", "r", "f", "t", "o", "k", "e", "n", "=", "a", "%", "2", "0", "b">>,
      <<"c", "s", "r", "f", "t", "o", "k", "e", "n", "=", "%", "E", "0", "%", "A", "4", "%", "A">> }

\* getCsrfTokenFromCookie(): over document.cookie.split(';') in order, each
\* cookie trimmed and split at '='; the first one named csrftoken gives
\* decodeURIComponent(value), where value is the text between the first and
\* the second '=' (undefined, decoded as 'undefined', when there is no '=');
\* a URIError of the decoding is thrown to the caller; no such cookie: null
RECURSIVE CsrfCookieIn(_)
CsrfCookieIn(cookies) ==
    IF cookies = <<>> THEN [threw |-> FALSE, value |-> null]
    ELSE LET parts == Split(TrimRight(TrimLeft(Head(cookies))), "=")
             name == parts[1]
             value == IF Len(parts) >= 2 THEN parts[2] ELSE UndefinedText
             decoded == DecodeURIComponent(value)
         IN IF name = CsrfCookieName
            THEN IF decoded.ok
                 THEN [threw |-> FALSE, value |-> Text(decoded.chars)]
                 ELSE [threw |-> TRUE, value |-> null]
            ELSE CsrfCookieIn(Tail(cookies))

GetCsrfTokenFromCookie(cookie) == CsrfCookieIn(Split(cookie, ";"))

\* what GET /csrf/ may do: fail, answer a body that is not JSON, answer JSON
\* with or without the csrfToken field
CsrfOutcomes ==
    { [kind |-> "neterr", token |-> undefined],
      [kind |-> "notjson", token |-> undefined],
      [kind |-> "json", token |-> undefined],
      [kind |-> "json", token |-> "endpoint-csrf"] }

\* what getCsrfTokenFromCookie() does for each document.cookie above
CookieTokens == [cookie \in CookieJars |-> GetCsrfTokenFromCookie(cookie)]

\* the value of this.csrfToken once getCsrfToken() has settled: fetch or
\* response.json() rejecting goes to the catch before any assignment; else
\* data.csrfToken is assigned, and replaced by what getCsrfTokenFromCookie()
\* returns when it is falsy, unless that call throws
CsrfAfter(old, out, fromCookie) ==
    IF out.kind # "json" THEN old
    ELSE IF Truthy(out.token) THEN out.token
    ELSE IF fromCookie.threw THEN out.token
    ELSE fromCookie.value

----------------------------------------------------------------------------
(* DjangoWebSocket *)

\* this.maxReconnectAttempts = 5
maxReconnectAttempts == 5

\* this.reconnectInterval = 1000 (milliseconds)
reconnectInterval == 1000

\* callbacks registered at one time, over all events
MaxListeners == 2

\* callbacks registered at one time by a page that uses one event
MaxSnapshot == 4

\* page calls of connect() on one instance
MaxConnects == 2

\* the event names the page registers callbacks for; "update" is the type
\* of an inbound payload, the other two are emitted by the class itself
Events == {"message", "update", "disconnected"}

\* the page's callbacks: two that only return, one that throws, and three
\* that call back into the channel: on('message', cbB), off('message', cbB)
\* and disconnect()
Callbacks == {"cbA", "cbB", "cbThrows", "cbOn", "cbOff", "cbDisconnect"}

Throws(cb) == cb = "cbThrows"

\* the url handed to the constructor: new WebSocket(url) throws a SyntaxError
\* for a url that is not a ws:// or wss:// url
Urls == {"ws://localhost:8000/ws/", "localhost:8000/ws"}

ValidUrl(url) == url = "ws://localhost:8000/ws/"

\* inbound frames: event.data is JSON text of an object with a type field
\* (absent: undefined), the JSON text null, or text that JSON.parse rejects
Payloads ==
    { [json |-> TRUE, isNull |-> FALSE, type |-> undefined],
      [json |-> TRUE, isNull |-> FALSE, type |-> "update"],
      [json |-> TRUE, isNull |-> FALSE, type |-> "message"],
      [json |-> TRUE, isNull |-> TRUE, type |-> undefined],
      [json |-> FALSE, isNull |-> FALSE, type |-> undefined] }

\* readyState of a WebSocket whose handlers can still run
SocketStates == {"connecting", "open", "closing"}

\* new DjangoWebSocket(url)
WsNew(url) ==
    [url |-> url,
     socket |-> FALSE,             \* this.socket is not null
     readyState |-> "none",        \* of the WebSocket created last
     others |-> [s \in SocketStates |-> 0],  \* earlier WebSockets not yet closed
     reconnectAttempts |-> 0,
     timers |-> <<>>,              \* delays of the pending setTimeout calls
     listeners |-> [e \in Events |-> <<>>],
     connects |-> 0,               \* connect() calls made by the page
     opened |-> FALSE,             \* a socket has opened since construction
     delays |-> <<>>,              \* delays scheduled since the last open
     userClosed |-> FALSE]         \* disconnect() closed an open socket and the
                                   \* page has not called connect() since

WsConstructed == WsNew("ws://localhost:8000/ws/")

\* this.listeners[event], for any event name
ListenersOf(w, event) == IF event \in Events THEN w.listeners[event] ELSE <<>>

\* number of registrations over all events
Registered(w) ==
    Len(w.listeners["message"]) + Len(w.listeners["update"])
        + Len(w.listeners["disconnected"])

\* sockets created by the instance that are connecting or open
Live(w) ==
    (IF w.readyState \in {"connecting", "open"} THEN 1 ELSE 0)
        + w.others["connecting"] + w.others["open"]

\* a socket of the instance, the one created last or an earlier one, is in
\* state s
Has(w, which, s) == IF which = "last" THEN w.readyState = s ELSE w.others[s] > 0

\* that socket's readyState becomes to
Move(w, which, from, to) ==
    IF which = "last" THEN [w EXCEPT !.readyState = to]
    ELSE [w EXCEPT !.others =
            [s \in SocketStates |-> w.others[s] - (IF s = from THEN 1 ELSE 0)
                                        + (IF s = to THEN 1 ELSE 0)]]

\* on(event, callback)
On(w, event, cb) == [w EXCEPT !.listeners[event] = Append(@, cb)]

\* off(event, callback): filter(cb => cb !== callback)
Off(w, event, cb) ==
    [w EXCEPT !.listeners[event] = SelectSeq(@, LAMBDA c : c # cb)]

\* disconnect()
Disconnect(w) ==
    IF w.socket
    THEN [w EXCEPT !.socket = FALSE,
                   !.readyState = IF @ \in {"connecting", "open"} THEN "closing" ELSE @,
                   !.userClosed = IF w.readyState = "open" THEN TRUE ELSE @]
    ELSE w

\* callback(data): what the page's callback does to the channel
Call(w, cb) ==
    CASE cb = "cbOn" -> On(w, "message", "cbB")
      [] cb = "cbOff" -> Off(w, "message", "cbB")
      [] cb = "cbDisconnect" -> Disconnect(w)
      [] OTHER -> w

\* listeners.forEach(callback => callback(data)) on the array cbs: the
\* callbacks run in array order; an exception leaves forEach and the rest of
\* the array is not visited.  forEach reads the array's length once, on()
\* pushes behind that length and off() assigns a new array, so the elements
\* visited are those of cbs as it was when forEach began.
RECURSIVE ForEach(_, _)
ForEach(w, cbs) ==
    IF cbs = <<>> THEN [w |-> w, invoked |-> <<>>, threw |-> FALSE]
    ELSE IF Throws(Head(cbs)) THEN [w |-> w, invoked |-> <<Head(cbs)>>, threw |-> TRUE]
    ELSE LET rest == ForEach(Call(w, Head(cbs)), Tail(cbs))
         IN [w |-> rest.w, invoked |-> <<Head(cbs)>> \o rest.invoked,
             threw |-> rest.threw]

\* emit(event, data): the channel afterwards, the callbacks invoked, in
\* order, and whether emit threw
Emit(w, event) == ForEach(w, ListenersOf(w, event))

\* handleReconnect()
HandleReconnect(w) ==
    IF w.reconnectAttempts < maxReconnectAttempts
    THEN [w EXCEPT !.reconnectAttempts = @ + 1,
                   !.timers = Append(@, reconnectInterval * (w.reconnectAttempts + 1)),
                   !.delays = Append(@, reconnectInterval * (w.reconnectAttempts + 1))]
    ELSE w

\* connect(): new WebSocket(url) and the handlers, or the catch block; the
\* WebSocket this.socket referred to keeps its handlers
Connect(w) ==
    IF ValidUrl(w.url)
    THEN LET kept == IF w.readyState \in SocketStates
                     THEN [w EXCEPT !.others[w.readyState] = @ + 1]
                     ELSE w
         IN [kept EXCEPT !.socket = TRUE, !.readyState = "connecting"]
    ELSE HandleReconnect(w)

\* socket.onopen of a connecting socket
OnOpen(w, which) ==
    Emit([Move(w, which, "connecting", "open")
            EXCEPT !.reconnectAttempts = 0, !.opened = TRUE, !.delays = <<>>],
         "connected")

\* socket.onclose of a socket in state from: emit('disconnected', event), then
\* handleReconnect()
OnClose(w, which, from) ==
    LET r == Emit(Move(w, which, from, "closed"), "disconnected")
    IN IF r.threw THEN r ELSE [r EXCEPT !.w = HandleReconnect(r.w)]

\* socket.onmessage: the callbacks invoked by emit('message', data) and by
\* emit(data.type, data), whether the handler threw, and the channel
\* afterwards; JSON.parse throws on text that is not JSON, and reading
\* data.type throws a TypeError when data is null
OnMessage(w, payload) ==
    IF ~payload.json THEN [w |-> w, generic |-> <<>>, typed |-> <<>>, threw |-> TRUE]
    ELSE LET g == Emit(w, "message") IN
         IF g.threw \/ payload.isNull
         THEN [w |-> g.w, generic |-> g.invoked, typed |-> <<>>, threw |-> TRUE]
         ELSE IF Truthy(payload.type)
         THEN LET s == Emit(g.w, payload.type)
              IN [w |-> s.w, generic |-> g.invoked, typed |-> s.invoked, threw |-> s.threw]
         ELSE [w |-> g.w, generic |-> g.invoked, typed |-> <<>>, threw |-> FALSE]

----------------------------------------------------------------------------
(* Query strings of the list operations: new URLSearchParams(filters).toString() *)

\* entries of one filter mapping
MaxFilters == 2

\* the keys of a filter mapping, as characters
FilterNames ==
    { <<"s", "t", "a", "t", "u", "s">>,
      <<"p", "a", "g", "e">>,
      <<"s", "k", "i", "l", "l", "s", "[", "]">> }

\* JavaScript values a filter may hold; text is the characters of String(value)
JsNull == [type |-> "null", text |-> <<"n", "u", "l", "l">>]
JsUndefined ==
    [type |-> "undefined", text |-> <<"u", "n", "d", "e", "f", "i", "n", "e", "d">>]
JsString(chars) == [type |-> "string", text |-> chars]
JsNumber(digits) == [type |-> "number", text |-> digits]

FilterValues ==
    { JsNull, JsUndefined, JsString(<<>>), JsString(<<"a", " ", "b">>),
      JsString(<<"x", "&", "y">>), JsString(<<"a", "@", "b", ".", "c">>),
      JsString(<<"+", "1", "/", "2", "=", "5", "0", "%">>),
      JsString(<<"U+00F1", "~", "*", "-", "_">>), JsNumber(<<"2">>) }

\* a value the caller left out
IsAbsent(v) == v.type \in {"null", "undefined"}

\* object literals with at most MaxFilters keys, in insertion order
FilterMappings ==
    { f \in UNION { [1..n -> FilterNames \X FilterValues] : n \in 0..MaxFilters } :
        \A i, j \in DOMAIN f : i # j => f[i][1] # f[j][1] }

\* %XY for each byte
RECURSIVE PercentEncode(_)
PercentEncode(bytes) ==
    IF bytes = <<>> THEN <<>>
    ELSE <<"%", HexDigit(Head(bytes) \div 16), HexDigit(Head(bytes) % 16)>>
            \o PercentEncode(Tail(bytes))

\* the code units that make up a surrogate pair
HighSurrogates == {CharOf(n) : n \in 55296..56319}

LowSurrogates == {CharOf(n) : n \in 56320..57343}

\* chars begins with a surrogate pair
PairAhead(chars) ==
    /\ Len(chars) >= 2
    /\ chars[1] \in HighSurrogates
    /\ chars[2] \in LowSurrogates

\* application/x-www-form-urlencoded serializer, one code unit: space is '+',
\* letters, digits and * - . _ stay, anything else is the percent-encoded
\* UTF-8 of the character (U+FFFD for a surrogate without its pair)
EncodeChar(c) ==
    IF c = " " THEN <<"+">>
    ELSE IF c \in Letters \cup Digits \cup {"*", "-", ".", "_"} THEN <<c>>
    ELSE IF c \in HighSurrogates \cup LowSurrogates THEN PercentEncode(UTF8(65533))
    ELSE PercentEncode(UTF8(CodeOf(c)))

\* the serializer over a string; a surrogate pair is one character
RECURSIVE FormEncode(_)
FormEncode(chars) ==
    IF chars = <<>> THEN <<>>
    ELSE IF PairAhead(chars)
    THEN PercentEncode(UTF8(65536 + ((CodeOf(chars[1]) - 55296) * 1024)
                                + (CodeOf(chars[2]) - 56320)))
            \o FormEncode(Tail(Tail(chars)))
    ELSE EncodeChar(Head(chars)) \o FormEncode(Tail(chars))

\* new URLSearchParams(record): one (name, String(value)) pair per own key
RECURSIVE URLSearchParams(_)
URLSearchParams(f) ==
    IF f = <<>> THEN <<>>
    ELSE << <<Head(f)[1], Head(f)[2].text>> >> \o URLSearchParams(Tail(f))

\* URLSearchParams.prototype.toString(): name=value joined by '&', names and
\* values serialized
RECURSIVE ParamsToString(_)
ParamsToString(pairs) ==
    IF pairs = <<>> THEN <<>>
    ELSE FormEncode(Head(pairs)[1]) \o <<"=">> \o FormEncode(Head(pairs)[2])
            \o (IF Tail(pairs) = <<>> THEN <<>> ELSE <<"&">> \o ParamsToString(Tail(pairs)))

\* DjangoAPI.getCandidates(filters): the endpoint passed to request()
GetCandidatesEndpoint(f) ==
    <<"/", "a", "p", "i", "/", "c", "a", "n", "d", "i", "d", "a", "t", "e", "s", "/", "?">>
        \o ParamsToString(URLSearchParams(f))

\* RecruitmentAPI.getProcesses(filters): the endpoint passed to request()
GetProcessesEndpoint(f) ==
    LET queryParams == ParamsToString(URLSearchParams(f))
    IN IF queryParams # <<>>
       THEN <<"/", "p", "r", "o", "f", "i", "l", "e", "s", "/", "?">>
                \o queryParams
       ELSE <<"/", "p", "r", "o", "f", "i", "l", "e", "s", "/">>

----------------------------------------------------------------------------
(* DjangoAPI.downloadReport: the steps after await response.blob() *)

\* what the environment does to one download once the Response is there:
\* whether response.blob() resolves, and whether the DOM calls throw
DownloadInputs ==
    [blob : {"ok", "rejected"},
     appendChild : {"ok", "throws"},
     click : {"ok", "throws"}]

\* window.URL.createObjectURL(blob)
ObjectURL(reportId) == "blob:report_" \o ToString(reportId)

\* the outcome of downloadReport: the object URLs created and revoked, whether
\* the link is still in the page, whether it was clicked, how the call settled
DownloadOutcome(created, revoked, inPage, clicked, resolved) ==
    [created |-> created, revoked |-> revoked, inPage |-> inPage,
     clicked |-> clicked, resolved |-> resolved]

\* downloadReport(reportId) from line 306, statement by statement; an
\* exception or a rejected await ends the function where it happens
DownloadReport(reportId, in) ==
    LET url == ObjectURL(reportId) IN
    IF in.blob = "rejected"
    THEN DownloadOutcome({}, {}, FALSE, FALSE, FALSE)
    ELSE IF in.appendChild = "throws"
    THEN DownloadOutcome({url}, {}, FALSE, FALSE, FALSE)
    ELSE IF in.click = "throws"
    THEN DownloadOutcome({url}, {}, TRUE, FALSE, FALSE)
    ELSE DownloadOutcome({url}, {url}, FALSE, TRUE, TRUE)

\* the error downloadReport rejects with: that of the first step that fails
DownloadError(in) ==
    IF in.blob = "rejected" THEN "blob() rejected"
    ELSE IF in.appendChild = "throws" THEN "appendChild threw"
    ELSE "click threw"

\* the report a downloadReport frame is for
ReportOf(f) == CHOOSE id \in ReportIds : DownloadURL(id) = f.url

----------------------------------------------------------------------------
(* DjangoForms: strings are sequences of characters *)

\* validators over all fields of one rules object
MaxValidators == 3

\* the truthiness of a value: undefined, null, '', 0 and NaN are falsy
JsTruthy(v) ==
    CASE v.type = "string" -> v.text # <<>>
      [] v.type = "number" -> v.text \notin {<<"0">>, <<"N", "a", "N">>}
      [] v.type = "function" -> TRUE
      [] OTHER -> FALSE

\* the members an object literal inherits from Object.prototype, for the
\* field names of the forms: obj.constructor is the function Object, a value
\* of type function; text is the characters of String(value)
ObjectPrototype ==
    [constructor |->
        [type |-> "function",
         text |-> <<"f", "u", "n", "c", "t", "i", "o", "n", " ", "O", "b", "j",
                    "e", "c", "t", "(", ")", " ", "{", " ", "[", "n", "a", "t",
                    "i", "v", "e", " ", "c", "o", "d", "e", "]", " ", "}">>]]

\* obj[field] of an object literal: its own property, else the member it
\* inherits, else undefined
Get(obj, field) ==
    IF field \in DOMAIN obj THEN obj[field]
    ELSE IF field \in DOMAIN ObjectPrototype THEN ObjectPrototype[field]
    ELSE JsUndefined

\* value.length is a number: strings and functions have a length, numbers
\* have none
HasLength(v) == v.type \in {"string", "function"}

\* value.length: the code units of a string; Object.length is 1
Length(v) == IF v.type = "function" THEN 1 ELSE Len(v.text)

\* value.toString().trim() === ''
TrimIsEmpty(chars) == \A i \in 1..Len(chars) : chars[i] \in Whitespace

\* /^[^\s@]+@[^\s@]+\.[^\s@]+$/.test(value)
EmailRegexTest(chars) ==
    /\ \A i \in 1..Len(chars) : chars[i] \notin Whitespace
    /\ \E at \in 2..Len(chars) :
        /\ chars[at] = "@"
        /\ \A i \in 1..Len(chars) : chars[i] = "@" => i = at
        /\ \E dot \in (at + 2)..(Len(chars) - 1) : chars[dot] = "."

\* /^\+?[\d\s\-\(\)]+$/.test(value)
PhoneRegexTest(chars) ==
    LET rest == IF chars # <<>> /\ chars[1] = "+" THEN Tail(chars) ELSE chars
    IN /\ rest # <<>>
       /\ \A i \in 1..Len(rest) : rest[i] \in Digits \cup Whitespace \cup {"-", "(", ")"}

\* chars is not empty and all its characters are in set
AllIn(chars, set) == chars # <<>> /\ \A i \in 1..Len(chars) : chars[i] \in set

\* ExponentPart: e or E, an optional sign, digits
IsExponent(chars) ==
    /\ Len(chars) >= 2
    /\ chars[1] \in {"e", "E"}
    /\ AllIn(IF chars[2] \in {"+", "-"} THEN SubSeq(chars, 3, Len(chars)) ELSE Tail(chars),
             Digits)

\* digits with at most one '.', at least one digit
IsMantissa(chars) ==
    /\ AllIn(chars, Digits \cup {"."})
    /\ Cardinality({i \in 1..Len(chars) : chars[i] = "."}) <= 1
    /\ \E i \in 1..Len(chars) : chars[i] \in Digits

\* StrUnsignedDecimalLiteral: Infinity, or a mantissa and an optional exponent
IsUnsignedDecimal(chars) ==
    \/ chars = <<"I", "n", "f", "i", "n", "i", "t", "y">>
    \/ \E k \in 1..Len(chars) :
            /\ IsMantissa(SubSeq(chars, 1, k))
            /\ k = Len(chars) \/ IsExponent(SubSeq(chars, k + 1, Len(chars)))

\* NonDecimalIntegerLiteral: 0x, 0o or 0b (either case) and digits of that base
IsNonDecimal(chars) ==
    /\ Len(chars) >= 3
    /\ chars[1] = "0"
    /\ \/ chars[2] \in {"x", "X"} /\ \A i \in 3..Len(chars) : HexValue(chars[i]) >= 0
       \/ chars[2] \in {"o", "O"} /\ \A i \in 3..Len(chars) : HexValue(chars[i]) \in 0..7
       \/ chars[2] \in {"b", "B"} /\ \A i \in 3..Len(chars) : HexValue(chars[i]) \in 0..1

\* isNaN(Number(value)) for the characters of String(value): Number() strips
\* white space, reads '' as 0, and otherwise wants a decimal literal with an
\* optional sign or an unsigned literal of another base
IsNaNNumber(chars) ==
    LET t == TrimRight(TrimLeft(chars))
        u == IF t # <<>> /\ t[1] \in {"+", "-"} THEN Tail(t) ELSE t
    IN t # <<>> /\ ~IsUnsignedDecimal(u) /\ ~IsNonDecimal(t)

\* the messages, with accented letters written without their accent
RequiredMsg == "Este campo es requerido"
EmailMsg == "Formato de email invalido"
NumericMsg == "Debe ser un numero valido"
PhoneMsg == "Formato de telefono invalido"
MinLengthMsg(min) == "Minimo " \o ToString(min) \o " caracteres"
MaxLengthMsg(max) == "Maximo " \o ToString(max) \o " caracteres"

\* validators.required
RequiredValidator(v) ==
    IF ~JsTruthy(v) \/ TrimIsEmpty(v.text) THEN RequiredMsg ELSE null

\* validators.email
EmailValidator(v) ==
    IF JsTruthy(v) /\ ~EmailRegexTest(v.text) THEN EmailMsg ELSE null

\* validators.minLength(min)
MinLengthValidator(min, v) ==
    IF JsTruthy(v) /\ HasLength(v) /\ Length(v) < min THEN MinLengthMsg(min) ELSE null

\* validators.maxLength(max)
MaxLengthValidator(max, v) ==
    IF JsTruthy(v) /\ HasLength(v) /\ Length(v) > max THEN MaxLengthMsg(max) ELSE null

\* validators.numeric
NumericValidator(v) ==
    IF JsTruthy(v) /\ IsNaNNumber(v.text) THEN NumericMsg ELSE null

\* validators.phone
PhoneValidator(v) ==
    IF JsTruthy(v) /\ ~PhoneRegexTest(v.text) THEN PhoneMsg ELSE null

\* the validators a rules object may list; minLength and maxLength are built
\* with the argument 3
Validators ==
    { [name |-> "required", param |-> 0], [name |-> "email", param |-> 0],
      [name |-> "minLength", param |-> 3], [name |-> "maxLength", param |-> 3],
      [name |-> "numeric", param |-> 0], [name |-> "phone", param |-> 0] }

\* validator(value)
Validate(validator, v) ==
    CASE validator.name = "required" -> RequiredValidator(v)
      [] validator.name = "email" -> EmailValidator(v)
      [] validator.name = "minLength" -> MinLengthValidator(validator.param, v)
      [] validator.name = "maxLength" -> MaxLengthValidator(validator.param, v)
      [] validator.name = "numeric" -> NumericValidator(v)
      [] validator.name = "phone" -> PhoneValidator(v)

\* the inner loop of validateForm: the errors of one field, in validator order
RECURSIVE FieldErrors(_, _)
FieldErrors(v, validators) ==
    IF validators = <<>> THEN <<>>
    ELSE (IF Truthy(Validate(Head(validators), v))
          THEN <<Validate(Head(validators), v)>> ELSE <<>>)
            \o FieldErrors(v, Tail(validators))

\* the outer loop of validateForm, from the entries collected so far. For the
\* first error of a field, errors[field] || [] reads errors[field] through the
\* prototype chain: under a name Object.prototype defines it is the inherited
\* member, which is truthy and has no push, so errors[field].push(error)
\* throws a TypeError and validateForm returns nothing
RECURSIVE CollectErrors(_, _, _)
CollectErrors(errors, formData, rules) ==
    IF rules = <<>> THEN [entries |-> errors, threw |-> FALSE]
    ELSE LET field == Head(rules)[1]
             errs == FieldErrors(Get(formData, field), Head(rules)[2])
         IN IF errs = <<>> THEN CollectErrors(errors, formData, Tail(rules))
            ELSE IF field \in DOMAIN ObjectPrototype
            THEN [entries |-> errors, threw |-> TRUE]
            ELSE CollectErrors(Append(errors, <<field, errs>>), formData, Tail(rules))

\* what validateForm returns: null, or the errors object as its entries in
\* insertion order; threw when it returns nothing
NoErrors == [isNull |-> TRUE, entries |-> <<>>, threw |-> FALSE]

ErrorsObject(entries) == [isNull |-> FALSE, entries |-> entries, threw |-> FALSE]

\* validateForm(formData, rules)
ValidateForm(formData, rules) ==
    LET errors == CollectErrors(<<>>, formData, rules)
    IN IF errors.threw THEN [isNull |-> FALSE, entries |-> <<>>, threw |-> TRUE]
       ELSE IF Len(errors.entries) > 0 THEN ErrorsObject(errors.entries) ELSE NoErrors

\* the field names of the forms; 'constructor' is also a member of
\* Object.prototype
FormFields == {"email", "phone", "constructor"}

\* the values a field the form holds may have: empty, white space, text,
\* null and numbers (a field filled from a parsed record)
FieldValues(field) ==
    CASE field = "email" ->
            { JsString(<<>>), JsString(<<"\t", " ">>),
              JsString(<<"a", "@", "b", ".", "c">>), JsString(<<"a", "b">>),
              JsNumber(<<"5">>), JsNumber(<<"0">>) }
      [] field = "phone" ->
            { JsNull, JsString(<<"1", "2">>), JsString(<<"1", "e", "1">>),
              JsString(<<"0", "x", "1", "F">>),
              JsString(<<"+", "1", " ", "(", "2", ")">>), JsNumber(<<"5">>) }
      [] OTHER -> { JsString(<<>>) }

\* lists of at most n validators
ValidatorLists(n) == UNION { [1..k -> Validators] : k \in 0..n }

\* rules objects: one or two distinct fields in insertion order, each with
\* its validators, at most MaxValidators validators in all
RuleSets ==
    {<<>>}
    \cup { << <<f, l>> >> : f \in FormFields, l \in ValidatorLists(MaxValidators) }
    \cup UNION { { <<p, <<f, l>> >> :
                        f \in FormFields \ {p[1]},
                        l \in ValidatorLists(MaxValidators - Len(p[2])) } :
                  p \in FormFields \X ValidatorLists(MaxValidators) }

\* form data: object literals holding some of the fields
FormDatas ==
    UNION { {formData \in [held -> UNION {FieldValues(field) : field \in held}] :
                \A field \in held : formData[field] \in FieldValues(field)} :
            held \in SUBSET FormFields }

----------------------------------------------------------------------------
(* DjangoUtils: candidate records between wire and frontend format *)

\* candidate records as the backend sends them; created_at stands for the
\* fields formatForDjango does not write back
WireCandidates ==
    [first_name : {JsString(<<"A">>), JsString(<<"M", " ", "J">>), JsString(<<>>)},
     last_name : {JsString(<<"B">>), JsString(<<"D", " ", "L">>), JsString(<<>>)},
     email : {JsString(<<"a", "@", "b">>), JsNull},
     skills : {JsString(<<"x", ",", "y">>), JsString(<<"x">>), JsString(<<>>), JsNull},
     created_at : {JsString(<<"2", "0", "2", "4">>)}]

\* formatModelData(data, 'candidate'): name, email and skills of the result
FormatModelData(data) ==
    [name |-> JsString(data.first_name.text \o <<" ">> \o data.last_name.text),
     email |-> data.email,
     skills |-> IF JsTruthy(data.skills) THEN Split(data.skills.text, ",") ELSE <<>>]

\* formatForDjango(data, 'candidate'), for the object formatModelData built
FormatForDjango(data) ==
    LET parts == Split(data.name.text, " ")
    IN [first_name |-> JsString(Head(parts)),
        last_name |-> JsString(Join(Tail(parts), " ")),
        email |-> data.email,
        skills |-> JsString(Join(data.skills, ","))]

----------------------------------------------------------------------------
(* State *)

\* a task that is running no call: a settled call leaves only its log entries
IdleTask ==
    [stack |-> <<>>, flight |-> NoMsg, hung |-> FALSE,
     calls |-> 0, clears |-> 0, navs |-> 0, repeats |-> 0, all401 |-> TRUE]

Running(t) == tasks[t].stack # <<>>

\* task t awaits a fetch (and not response.blob())
InFlight(t) == tasks[t].flight # NoMsg

\* the page has built its clients and the constructor's CSRF fetch has settled
Init ==
    /\ storage \in {EmptyStorage, StoredSession}
    /\ location = AppPage
    /\ csrfToken \in {null, "endpoint-csrf"}
    /\ csrfPending = FALSE
    /\ rtoken = storage.authToken
    /\ failed = FALSE
    /\ loggedOut = FALSE
    /\ tasks = [t \in Tasks |-> IdleTask]
    /\ log = <<>>
    /\ started = 0
    /\ ws = WsConstructed
    /\ last = NoCall

\* the machine a continuation of task t runs on
Machine(t) ==
    [task |-> t, stack |-> tasks[t].stack, flight |-> tasks[t].flight,
     storage |-> storage, location |-> location, rtoken |-> rtoken,
     failed |-> failed, loggedOut |-> loggedOut, csrf |-> csrfToken,
     calls |-> tasks[t].calls, clears |-> tasks[t].clears,
     navs |-> tasks[t].navs, repeats |-> tasks[t].repeats, log |-> <<>>,
     resp |-> NoResp]

\* the machine of a new top-level call of task t
Fresh(t) == [Machine(t) EXCEPT !.flight = NoMsg]

\* write the machine back; a task whose stack is empty has settled
Commit(t, m, all401) ==
    /\ storage' = m.storage
    /\ location' = m.location
    /\ rtoken' = m.rtoken
    /\ failed' = m.failed
    /\ loggedOut' = m.loggedOut
    /\ log' = m.log
    /\ tasks' = [tasks EXCEPT ![t] =
            IF m.stack = <<>> THEN IdleTask
            ELSE [stack |-> m.stack, flight |-> m.flight, hung |-> FALSE,
                  calls |-> m.calls, clears |-> m.clears, navs |-> m.navs,
                  repeats |-> m.repeats, all401 |-> all401]]

\* the page makes its next top-level call, t, which runs to m; call is what
\* is recorded of its arguments
StartCall(t, m, call) ==
    /\ t = started + 1
    /\ started' = started + 1
    /\ Commit(t, m, TRUE)
    /\ last' = call
    /\ UNCHANGED <<csrfToken, csrfPending, ws>>

Start(t, m) == StartCall(t, m, NoCall)

----------------------------------------------------------------------------
(* Actions *)

\* the constructor's getCsrfToken() settles
GetCsrfToken ==
    /\ csrfPending
    /\ \E out \in CsrfOutcomes, cookie \in CookieJars :
            /\ csrfToken' = CsrfAfter(csrfToken, out, CookieTokens[cookie])
            /\ last' = [fn |-> "getCsrfToken", arg |-> <<out, cookie>>, out |-> csrfToken']
    /\ csrfPending' = FALSE
    /\ log' = <<>>
    /\ UNCHANGED <<storage, location, rtoken, failed, loggedOut, tasks, started, ws>>

\* api.getCandidates() called by the page
CallRequest(t) == Start(t, Request(Fresh(t), CandidatesURL, PlainOptions))

\* api.uploadFile(file)
CallUploadFile(t) ==
    Start(t, Request(Fresh(t), UploadURL, UploadOptions(storage)))

\* api.login(username, password)
CallLogin(t) ==
    Start(t, Request(Push(Fresh(t), Frame("login", LoginURL, NoMsg, Fresh(t))), LoginURL,
                     Options("POST", <<"credentials">>, FALSE, NoHeaders)))

\* api.logout()
CallLogout(t) ==
    Start(t, Request(Push(Fresh(t), Frame("logout", LogoutURL, NoMsg, Fresh(t))), LogoutURL,
                     Options("POST", NoBody, FALSE, NoHeaders)))

\* api.refreshToken() called by the page
CallRefreshToken(t) == Start(t, RefreshToken(Fresh(t)))

\* RecruitmentAPI: getDashboardStats()
RCallRequest(t) == Start(t, RRequest(Fresh(t), RStatsURL, PlainOptions))

\* RecruitmentAPI: login(email, password)
RCallLogin(t) ==
    Start(t, RRequest(Push(Fresh(t), Frame("rlogin", RLoginURL, NoMsg, Fresh(t))),
                      RLoginURL, Options("POST", <<"credentials">>, FALSE, NoHeaders)))

\* RecruitmentAPI: refreshToken()
RCallRefreshToken(t) == Start(t, RRefreshToken(Fresh(t)))

\* RecruitmentAPI: uploadCV(file)
RCallUploadCV(t) == Start(t, UploadCV(Fresh(t)))

\* the fetch task t has in flight settles with resp and the continuation of
\* the awaiting frame runs
Settle(t, resp) ==
    LET m == [Machine(t) EXCEPT !.resp = resp]
        f == Top(m)
    IN /\ (f.fn = "request" /\ ShouldRefresh(f, resp) /\ ~NoRefreshToken(storage))
            => Depth(tasks) < MaxDepth
       /\ Commit(t,
                 CASE f.fn = "request" -> OnResponse(m, resp)
                   [] f.fn = "uploadCV" -> UploadCVOnResponse(m, resp)
                   [] OTHER -> ROnResponse(m, resp),
                 tasks[t].all401 /\ resp.status = 401)

\* the transport fails, or the backend answers, the fetch task t has in flight
Respond(t) ==
    /\ Running(t)
    /\ InFlight(t)
    /\ ~tasks[t].hung
    /\ \/ Settle(t, NetworkFailure)
       \/ \E resp \in Answers(Top(Machine(t)), tasks[t].flight.url) : Settle(t, resp)
    /\ last' = NoCall
    /\ UNCHANGED <<csrfToken, csrfPending, started, ws>>

\* the fetch task t has in flight never settles (the client sets no timeout)
Hang(t) ==
    /\ Running(t)
    /\ InFlight(t)
    /\ ~tasks[t].hung
    /\ tasks' = [tasks EXCEPT ![t].hung = TRUE]
    /\ log' = <<>>
    /\ last' = NoCall
    /\ UNCHANGED <<storage, location, csrfToken, csrfPending, rtoken, failed, loggedOut,
                   started, ws>>

Next ==
    \/ \E t \in Tasks : CallRequest(t)
    \/ \E t \in Tasks : CallUploadFile(t)
    \/ \E t \in Tasks : CallLogin(t)
    \/ \E t \in Tasks : CallLogout(t)
    \/ \E t \in Tasks : CallRefreshToken(t)
    \/ \E t \in Tasks : RCallRequest(t)
    \/ \E t \in Tasks : RCallLogin(t)
    \/ \E t \in Tasks : RCallRefreshToken(t)
    \/ \E t \in Tasks : RCallUploadCV(t)
    \/ \E t \in Tasks : Respond(t)

Spec == Init /\ [][Next]_vars

\* the same program on a network that may leave a fetch unanswered for ever
NextHang ==
    \/ Next
    \/ \E t \in Tasks : Hang(t)

\* the event loop runs every continuation whose response has arrived, and
\* every fetch that is not hung is eventually answered
HangSpec == Init /\ [][NextHang]_vars /\ \A t \in Tasks : WF_vars(Respond(t))

\* the page right after new DjangoAPI(): the CSRF fetch is still in flight
InitConstructed ==
    /\ storage \in {EmptyStorage, StoredSession}
    /\ location = AppPage
    /\ csrfToken = null
    /\ csrfPending = TRUE
    /\ rtoken = storage.authToken
    /\ failed = FALSE
    /\ loggedOut = FALSE
    /\ tasks = [t \in Tasks |-> IdleTask]
    /\ log = <<>>
    /\ started = 0
    /\ ws = WsConstructed
    /\ last = NoCall

\* DjangoAPI requests racing with the constructor's CSRF fetch
NextCsrf ==
    \/ GetCsrfToken
    \/ \E t \in Tasks : CallRequest(t)
    \/ \E t \in Tasks : CallUploadFile(t)
    \/ \E t \in Tasks : Respond(t)

CsrfSpec == InitConstructed /\ [][NextCsrf]_vars

----------------------------------------------------------------------------
(* RecruitmentAPI on its own *)

\* a page that uses only the RecruitmentAPI client
NextRecruitment ==
    \/ \E t \in Tasks : RCallRequest(t)
    \/ \E t \in Tasks : RCallLogin(t)
    \/ \E t \in Tasks : RCallRefreshToken(t)
    \/ \E t \in Tasks : RCallUploadCV(t)
    \/ \E t \in Tasks : Respond(t)

RecruitmentSpec == Init /\ [][NextRecruitment]_vars

----------------------------------------------------------------------------
(* DjangoWebSocket: the page's calls and the socket's events *)

\* the HTTP clients are idle while the socket is exercised
SessionQuiet ==
    /\ storage = EmptyStorage
    /\ location = AppPage
    /\ csrfToken = null
    /\ csrfPending = FALSE
    /\ rtoken = null
    /\ failed = FALSE
    /\ loggedOut = FALSE
    /\ tasks = [t \in Tasks |-> IdleTask]
    /\ log = <<>>
    /\ started = 0

WsInit ==
    /\ SessionQuiet
    /\ ws \in {WsNew(url) : url \in Urls}
    /\ last = NoCall

\* the page calls connect(), at most n times in all
WsConnect(n) ==
    /\ ws.connects < n
    /\ ws' = Connect([ws EXCEPT !.connects = @ + 1, !.userClosed = FALSE])
    /\ last' = [fn |-> "connect", arg |-> <<>>, out |-> <<>>]
    /\ UNCHANGED sessionVars

\* a connection is established: onopen runs
WsOpen ==
    /\ \E which \in {"last", "other"} :
         /\ Has(ws, which, "connecting")
         /\ ws' = OnOpen(ws, which).w
         /\ last' = [fn |-> "onopen", arg |-> <<>>, out |-> OnOpen(ws, which)]
    /\ UNCHANGED sessionVars

\* a connection fails or ends: onclose runs
WsClose ==
    /\ \E which \in {"last", "other"}, from \in SocketStates :
         /\ Has(ws, which, from)
         /\ Registered(OnClose(ws, which, from).w) <= MaxListeners
         /\ ws' = OnClose(ws, which, from).w
         /\ last' = [fn |-> "onclose", arg |-> <<from, ws.listeners>>,
                     out |-> OnClose(ws, which, from)]
    /\ UNCHANGED sessionVars

\* a timer set by handleReconnect() fires: connect() runs
WsTimer ==
    /\ \E i \in 1..Len(ws.timers) :
         /\ ws' = Connect([ws EXCEPT !.timers =
                                SubSeq(@, 1, i - 1) \o SubSeq(@, i + 1, Len(@))])
         /\ last' = [fn |-> "timer", arg |-> ws.timers[i], out |-> <<>>]
    /\ UNCHANGED sessionVars

\* a frame arrives on an open socket: onmessage runs
WsMessage ==
    /\ \E which \in {"last", "other"}, payload \in Payloads :
         /\ Has(ws, which, "open")
         /\ Registered(OnMessage(ws, payload).w) <= MaxListeners
         /\ ws' = OnMessage(ws, payload).w
         /\ last' = [fn |-> "onmessage", arg |-> <<payload, ws.listeners>>,
                     out |-> OnMessage(ws, payload)]
    /\ UNCHANGED sessionVars

\* the page calls on(event, callback), for one of events and while fewer than
\* cap callbacks are registered
WsOn(events, cap) ==
    /\ Registered(ws) < cap
    /\ \E event \in events, cb \in Callbacks :
         /\ ws' = On(ws, event, cb)
         /\ last' = [fn |-> "on", arg |-> <<event, cb, ws.listeners>>, out |-> <<>>]
    /\ UNCHANGED sessionVars

\* the page calls off(event, callback), for one of events
WsOff(events) ==
    /\ \E event \in events, cb \in Callbacks :
         /\ ws' = Off(ws, event, cb)
         /\ last' = [fn |-> "off", arg |-> <<event, cb, ws.listeners>>, out |-> <<>>]
    /\ UNCHANGED sessionVars

\* the page calls emit(event, data), for one of events; the callbacks may
\* leave at most cap callbacks registered
WsEmit(events, cap) ==
    /\ \E event \in events :
         /\ Registered(Emit(ws, event).w) <= cap
         /\ ws' = Emit(ws, event).w
         /\ last' = [fn |-> "emit", arg |-> <<event, ws.listeners>>,
                     out |-> Emit(ws, event)]
    /\ UNCHANGED sessionVars

\* the page calls disconnect()
WsDisconnect ==
    /\ ws.socket
    /\ ws' = Disconnect(ws)
    /\ last' = [fn |-> "disconnect", arg |-> <<>>, out |-> <<>>]
    /\ UNCHANGED sessionVars

\* a page that calls connect() once
NextWs ==
    \/ WsConnect(1)
    \/ WsOpen
    \/ WsClose
    \/ WsTimer
    \/ WsMessage
    \/ WsOn(Events, MaxListeners)
    \/ WsOff(Events)
    \/ WsEmit(Events, MaxListeners)
    \/ WsDisconnect

WsSpec == WsInit /\ [][NextWs]_vars

\* a page that registers callbacks for 'message' only, calls connect() once
\* and emits 'message' itself
NextListeners ==
    \/ WsConnect(1)
    \/ WsOn({"message"}, MaxSnapshot)
    \/ WsOff({"message"})
    \/ WsEmit({"message"}, MaxSnapshot)

ListenersSpec == WsInit /\ [][NextListeners]_vars

\* a page that may call connect() again, and registers no callbacks
NextConnections ==
    \/ WsConnect(MaxConnects)
    \/ WsOpen
    \/ WsClose
    \/ WsTimer
    \/ WsDisconnect

ConnectionsSpec == WsInit /\ [][NextConnections]_vars

----------------------------------------------------------------------------
(* List operations: the endpoint built from a filter mapping *)

QueryInit ==
    /\ SessionQuiet
    /\ ws = WsConstructed
    /\ last \in {[fn |-> "filters", arg |-> f, out |-> <<>>] : f \in FilterMappings}

\* the page holds a filter mapping and has not yet made its list call
HasFilters == last.fn = "filters"

\* DjangoAPI.getCandidates(filters)
CallGetCandidates(t) ==
    /\ HasFilters
    /\ StartCall(t, Request(Fresh(t), Text(GetCandidatesEndpoint(last.arg)), PlainOptions),
                 [fn |-> "getCandidates", arg |-> last.arg,
                  out |-> GetCandidatesEndpoint(last.arg)])

\* RecruitmentAPI.getProcesses(filters)
RCallGetProcesses(t) ==
    /\ HasFilters
    /\ StartCall(t, RRequest(Fresh(t), Text(GetProcessesEndpoint(last.arg)), PlainOptions),
                 [fn |-> "getProcesses", arg |-> last.arg,
                  out |-> GetProcessesEndpoint(last.arg)])

NextQuery ==
    \/ \E t \in Tasks : CallGetCandidates(t)
    \/ \E t \in Tasks : RCallGetProcesses(t)
    \/ \E t \in Tasks : Respond(t)

QuerySpec == QueryInit /\ [][NextQuery]_vars

----------------------------------------------------------------------------
(* Report download *)

\* DjangoAPI.downloadReport(reportId) up to its first await
CallDownloadReport(t) ==
    \E reportId \in ReportIds :
        Start(t, Request(Push(Fresh(t), Frame("downloadReport", DownloadURL(reportId),
                                              NoMsg, Fresh(t))),
                         DownloadURL(reportId), Options("GET", NoBody, FALSE, NoHeaders)))

\* response.blob() settles for task t and downloadReport runs to its end
BlobSettles(t) ==
    /\ Running(t)
    /\ Top(tasks[t]).fn = "downloadReport"
    /\ Top(tasks[t]).pc = "blob"
    /\ \E in \in DownloadInputs :
         LET outcome == DownloadReport(ReportOf(Top(tasks[t])), in)
         IN /\ Commit(t, Complete(Machine(t),
                                  IF outcome.resolved THEN Returned(EmptyBody)
                                  ELSE Thrown(DownloadError(in))),
                      tasks[t].all401)
            /\ last' = [fn |-> "downloadReport",
                        arg |-> <<ReportOf(Top(tasks[t])), in>>, out |-> outcome]
    /\ UNCHANGED <<csrfToken, csrfPending, started, ws>>

NextDownload ==
    \/ \E t \in Tasks : CallDownloadReport(t)
    \/ \E t \in Tasks : Respond(t)
    \/ \E t \in Tasks : BlobSettles(t)

DownloadSpec == Init /\ [][NextDownload]_vars

----------------------------------------------------------------------------
(* Form validation *)

FormsInit ==
    /\ SessionQuiet
    /\ ws = WsConstructed
    /\ \E formData \in FormDatas, rules \in RuleSets :
            last = [fn |-> "form", arg |-> <<formData, rules>>, out |-> <<>>]

\* DjangoForms.validateForm(formData, rules)
CallValidateForm ==
    /\ last.fn = "form"
    /\ last' = [fn |-> "validateForm", arg |-> last.arg,
                out |-> ValidateForm(last.arg[1], last.arg[2])]
    /\ UNCHANGED <<ws, sessionVars>>

NextForms == CallValidateForm

FormsSpec == FormsInit /\ [][NextForms]_vars

----------------------------------------------------------------------------
(* Candidate round trip *)

UtilsInit ==
    /\ SessionQuiet
    /\ ws = WsConstructed
    /\ last \in {[fn |-> "record", arg |-> rec, out |-> <<>>] : rec \in WireCandidates}

\* DjangoUtils.formatModelData(record, 'candidate')
CallFormatModelData ==
    /\ last.fn = "record"
    /\ last' = [fn |-> "formatModelData", arg |-> last.arg, out |-> FormatModelData(last.arg)]
    /\ UNCHANGED <<ws, sessionVars>>

\* DjangoUtils.formatForDjango(model, 'candidate') on that result; arg stays
\* the wire record the round trip began with
CallFormatForDjango ==
    /\ last.fn = "formatModelData"
    /\ last' = [fn |-> "formatForDjango", arg |-> last.arg, out |-> FormatForDjango(last.out)]
    /\ UNCHANGED <<ws, sessionVars>>

NextUtils ==
    \/ CallFormatModelData
    \/ CallFormatForDjango

UtilsSpec == UtilsInit /\ [][NextUtils]_vars

----------------------------------------------------------------------------
(* Properties *)

\* the frames that settled during the last step
Entries == {log[i] : i \in 1..Len(log)}

\* the suspended frames of all tasks
Frames == UNION {{tasks[t].stack[i] : i \in 1..Len(tasks[t].stack)} : t \in Tasks}

RequestEntries == {e \in Entries : e.fn = "request"}

\* C1 (as stated): every request() whose first response is 401 makes a refresh
\* HTTP call and sends the original request exactly once more; the original
\* request is sent at most twice.
C1_RefreshAndRetryOnEvery401 ==
    \A e \in RequestEntries :
        /\ e.sends <= 2
        /\ e.first.status = 401 => (e.http - e.sends >= 1 /\ e.sends = 2)

\* C1 (amended): a request() whose first response is 401 calls refreshToken()
\* once and sends the original request once more exactly when that refresh
\* resolved; when the refresh rejected, the request rejects with the error of
\* its refreshToken(); a request() whose first response is not 401 never
\* refreshes; a retry answered 401 rejects with that response's error; no
\* frame sends its request a third time.
C1_RetryOnceAfterSuccessfulRefresh ==
    /\ \A f \in Frames : f.fn = "request" =>
            /\ f.sends <= 2
            /\ f.pc = "fetch2" =>
                    (f.sends = 2 /\ f.rcalls = 1 /\ f.rres = "resolved"
                     /\ f.first.status = 401)
    /\ \A e \in RequestEntries :
            /\ e.sends \in {1, 2}
            /\ e.first.status = 401 =>
                    (e.rcalls = 1 /\ (e.sends = 2 <=> e.rres = "resolved"))
            /\ (e.first.status = 401 /\ e.sends = 1) =>
                    /\ ~e.result.ok
                    /\ \E r \in Entries : /\ r.fn = "refreshToken" /\ r.task = e.task
                                          /\ r.result = e.result
            /\ e.first.status # 401 => (e.rcalls = 0 /\ e.sends = 1)
            /\ (e.sends = 2 /\ e.resp.status = 401) =>
                    e.result = Thrown(ErrorMessage(e.resp.body))

\* a retry was answered 401 and the request rejected after two sends
C1_Witness ==
    \E e \in RequestEntries :
        /\ e.first.status = 401 /\ e.sends = 2 /\ e.resp.status = 401
        /\ ~e.result.ok /\ e.url = CandidatesURL

\* C2: while every response a call has received is 401, the call makes a
\* bounded number of HTTP calls: the original, the refresh and at most one more.
C2_BoundedCallsUnderAll401 ==
    \A t \in Tasks : (Running(t) /\ tasks[t].all401) => tasks[t].calls <= 3

\* C3: a logout that has begun always reaches the point where storage is
\* cleared and navigation to the login view is signalled, whatever becomes of
\* its network call.
C3_LogoutAlwaysClears ==
    \A t \in Tasks :
        (Running(t) /\ tasks[t].stack[1].fn = "logout")
            ~> (\E e \in Entries :
                    /\ e.task = t /\ e.fn = "logout"
                    /\ e.storage = EmptyStorage /\ e.location = DjangoLoginPage)

\* C4: the clear-and-navigate effect of a refresh failure is not executed again
\* once a refresh failure has ended the session, and no top-level call executes
\* clear-and-navigate more than once.
C4_ClearAndRedirectOnce ==
    /\ \A t \in Tasks : tasks[t].repeats = 0 /\ tasks[t].navs <= 1
    /\ \A e \in Entries : e.repeats = 0 /\ e.navs <= 1

\* C5: refreshToken() entered with no refresh token stored throws 'No refresh
\* token available' having made no HTTP call, in DjangoAPI and RecruitmentAPI.
C5_NoRefreshTokenFailsLocally ==
    \A e \in Entries :
        (e.fn \in {"refreshToken", "rrefresh"} /\ e.entryRT = null)
            => (e.result = Thrown(NoRefreshTokenMsg) /\ e.http = 0)

C5_Witness ==
    \E e \in Entries :
        /\ e.fn = "refreshToken" /\ e.entryRT = null /\ ~e.result.ok
        /\ e.top

\* C6: when the request made by DjangoAPI.refreshToken rejects, refreshToken
\* rejects with the same error, and at that point storage is empty and
\* navigation to the login view has been signalled.
C6_RefreshFailureClearsSession ==
    \A i \in 1..Len(log) :
        /\ (log[i].fn = "request" /\ log[i].url = RefreshURL /\ ~log[i].result.ok)
            => (i < Len(log) /\ log[i + 1].fn = "refreshToken"
                /\ ~log[i + 1].result.ok)
        /\ (log[i].fn = "refreshToken" /\ log[i].http >= 1 /\ ~log[i].result.ok)
            => /\ log[i].storage = EmptyStorage
               /\ log[i].location = DjangoLoginPage
               /\ i > 1 /\ log[i - 1].fn = "request" /\ log[i - 1].url = RefreshURL
               /\ log[i].result = log[i - 1].result

\* the refresh request failed with a server error while a session was stored
C6_Witness ==
    \E e \in Entries :
        /\ e.fn = "refreshToken" /\ e.http >= 1 /\ ~e.result.ok
        /\ e.entryRT = "R1" /\ e.resp.status = 403
        /\ e.result.msg = "detail text"

\* C7: the retry is the original request with only its Authorization header
\* changed, to the access token the refresh returned.
C7_RetryIsSameRequest ==
    \A t \in Tasks :
        (Running(t) /\ Top(tasks[t]).fn = "request" /\ Top(tasks[t]).pc = "fetch2") =>
            LET f == Top(tasks[t])
                retry == tasks[t].flight
            IN /\ retry.url = f.sent1.url
               /\ retry.method = f.sent1.method
               /\ retry.body = f.sent1.body
               /\ \A k \in HeaderNames \ {"Authorization"} :
                        retry.headers[k] = f.sent1.headers[k]
               /\ retry.headers["Authorization"] = Bearer(f.rtok)

\* C8: a request() whose first response is a transport failure, a 4xx other
\* than 401 or a 5xx makes one HTTP call and no refresh call, and rejects with
\* that failure.
C8_OtherFailuresPropagate ==
    \A e \in RequestEntries :
        (e.first # NoResp /\ ~Ok(e.first) /\ e.first.status # 401) =>
            /\ e.sends = 1 /\ e.http = 1 /\ e.rcalls = 0
            /\ Brief(e.resp) = e.first
            /\ e.result = IF e.first.kind = "neterr"
                          THEN Thrown(NetworkErrorMsg)
                          ELSE Thrown(ErrorMessage(e.resp.body))

C8_Witness ==
    \E e \in RequestEntries :
        /\ e.first.status = 500 /\ e.sends = 1 /\ ~e.result.ok
        /\ e.result.msg = RequestFailedMsg

\* C9: a login whose POST is answered with a non-2xx status rejects; when that
\* answer is the only response of the call, the message is its detail, else
\* its message, else 'Request failed'.
C9_LoginRejectsWithBackendMessage ==
    \A i \in 2..Len(log) :
        (log[i].fn = "login" /\ log[i - 1].first.kind = "http" /\ ~Ok(log[i - 1].first))
            => /\ ~log[i].result.ok
               /\ log[i].http = 1 => log[i].result.msg = ErrorMessage(log[i].resp.body)

\* C10: a login that rejects has neither removed anything from storage nor
\* signalled navigation, in DjangoAPI and RecruitmentAPI.
C10_FailedLoginKeepsSession ==
    \A e \in Entries :
        (e.fn \in {"login", "rlogin"} /\ ~e.result.ok) => (e.clears = 0 /\ e.navs = 0)

\* the access and refresh token of a login response, under either field name
AccessOf(body) == IF Truthy(body.access_token) THEN body.access_token ELSE body.access

RefreshOf(body) == IF Truthy(body.refresh_token) THEN body.refresh_token ELSE body.refresh

\* C11: when login resolves with a response that carries an access token, a
\* refresh token and a user, under either documented pair of field names,
\* storage holds that access token, that refresh token and that user.
C11_LoginStoresSession ==
    \A e \in Entries :
        (/\ e.fn \in {"login", "rlogin"} /\ e.result.ok
         /\ Truthy(AccessOf(e.result.body)) /\ Truthy(RefreshOf(e.result.body))
         /\ Truthy(e.result.body.user))
            => e.storage = [authToken |-> AccessOf(e.result.body),
                            refreshToken |-> RefreshOf(e.result.body),
                            user |-> JSONStringify(e.result.body.user)]

\* task t sends an HTTP request in this step
Sends(t) == tasks'[t].calls > tasks[t].calls

\* C12: every request sent by DjangoAPI.request carries Content-Type and
\* Accept application/json, X-CSRFToken when the client knows a CSRF token and
\* Authorization: Bearer <stored access token> when one is stored, whether or
\* not the caller passed headers of its own.
C12_DefaultHeadersOnEveryRequest ==
    [][\A t \in Tasks :
        (Sends(t) /\ Top(tasks'[t]).fn = "request") =>
            LET h == tasks'[t].flight.headers
            IN /\ h["Content-Type"] = <<"application/json">>
               /\ h["Accept"] = <<"application/json">>
               /\ Truthy(csrfToken') => h["X-CSRFToken"] = <<csrfToken'>>
               /\ Truthy(storage'.authToken) =>
                        h["Authorization"] = Bearer(storage'.authToken)]_vars

\* C13: every request sent for a file upload, the retry after a refresh
\* included, sets no Content-Type header and carries the bearer header of the
\* access token stored at that time.
C13_UploadsLeaveContentTypeUnset ==
    [][\A t \in Tasks :
        (Sends(t) /\ Top(tasks'[t]).url \in {UploadURL, RUploadURL}) =>
            LET h == tasks'[t].flight.headers
            IN /\ h["Content-Type"] = Absent
               /\ Truthy(storage'.authToken) =>
                        h["Authorization"] = Bearer(storage'.authToken)]_vars

\* the part of an endpoint after '?'
QueryPart(endpoint) ==
    IF \E i \in 1..Len(endpoint) : endpoint[i] = "?"
    THEN Join(Tail(Split(endpoint, "?")), "?")
    ELSE <<>>

\* C14: the query string of a list operation is the name=value parameters of
\* the filters whose value is present, in mapping order, and has no parameter
\* for a filter whose value is null or undefined.
C14_AbsentFiltersOmitted ==
    last.fn \in {"getCandidates", "getProcesses"} =>
        QueryPart(last.out) =
            ParamsToString(URLSearchParams(
                SelectSeq(last.arg, LAMBDA p : ~IsAbsent(p[2]))))

\* no socket is connecting or connected and no reconnect is pending
ReconnectsEnded ==
    /\ ws.connects = 1
    /\ ws.timers = <<>>
    /\ ws.readyState \in {"none", "closed"}
    /\ \A s \in SocketStates : ws.others[s] = 0

\* C15: while no connection attempt has opened, the k-th reconnect is
\* scheduled with delay k * reconnectInterval, reconnectAttempts never exceeds
\* maxReconnectAttempts, and once every attempt has closed and none is
\* pending, exactly maxReconnectAttempts reconnects have been scheduled.
C15_FiveReconnectsWithGrowingDelay ==
    /\ ws.reconnectAttempts <= maxReconnectAttempts
    /\ ~ws.opened =>
            /\ Len(ws.delays) <= maxReconnectAttempts
            /\ \A k \in 1..Len(ws.delays) : ws.delays[k] = k * reconnectInterval
    /\ (~ws.opened /\ ReconnectsEnded) => Len(ws.delays) = maxReconnectAttempts

\* C16: reconnectAttempts is 0 whenever the socket is open, and once a socket
\* has opened, the failures that follow produce maxReconnectAttempts further
\* reconnects before the class gives up.
C16_OpenResetsAttempts ==
    /\ ws.readyState = "open" => ws.reconnectAttempts = 0
    /\ (ws.opened /\ ReconnectsEnded) => Len(ws.delays) = maxReconnectAttempts

\* C17: for an inbound payload with a type field, the callbacks invoked are
\* the registrations for 'message' followed by those for the type, each
\* invoked once; when the type is 'message' that is one set, invoked once.
C17_DualDispatchOnce ==
    (last.fn = "onmessage" /\ last.arg[1].json /\ Truthy(last.arg[1].type)) =>
        LET type == last.arg[1].type
            generic == last.arg[2]["message"]
            typed == IF type \in Events THEN last.arg[2][type] ELSE <<>>
        IN last.out.generic \o last.out.typed =
                IF type = "message" THEN generic ELSE generic \o typed

\* C18: within one emit every callback registered for the event is invoked,
\* whichever of the callbacks before it throw.
C18_ThrowingListenerIsolated ==
    last.fn = "emit" =>
        LET cbs == last.arg[2][last.arg[1]]
        IN \A i \in 1..Len(cbs) :
                \E j \in 1..Len(last.out.invoked) : last.out.invoked[j] = cbs[i]

\* C19: emit invokes the registrations of its event once each, in the order
\* of the on() calls; off(event, cb) removes cb from that event, keeps the
\* other callbacks of the event in order and leaves other events unchanged.
C19_EmitInRegistrationOrder ==
    /\ last.fn = "emit" => last.out.invoked = last.arg[2][last.arg[1]]
    /\ last.fn = "on" =>
            ws.listeners =
                [last.arg[3] EXCEPT ![last.arg[1]] = Append(@, last.arg[2])]
    /\ last.fn = "off" =>
            /\ \A e \in Events \ {last.arg[1]} : ws.listeners[e] = last.arg[3][e]
            /\ ws.listeners[last.arg[1]] =
                    SelectSeq(last.arg[3][last.arg[1]], LAMBDA c : c # last.arg[2])

\* C20: after getCsrfToken() the client's CSRF token is the endpoint's token
\* if the endpoint returned one, else the csrftoken cookie's value if there is
\* such a cookie, else absent.
C20_CsrfFallsBackToCookie ==
    last.fn = "getCsrfToken" =>
        LET out == last.arg[1]
            fromCookie == CookieTokens[last.arg[2]]
        IN IF out.kind = "json" /\ Truthy(out.token) THEN csrfToken = out.token
           ELSE IF fromCookie.threw \/ fromCookie.value # null
                THEN ~fromCookie.threw /\ csrfToken = fromCookie.value
                ELSE csrfToken \in {null, undefined}

\* C21: when downloadReport has ended, every object URL it created has been
\* revoked, also when appending the link to the page or clicking it failed.
C21_ObjectUrlAlwaysRevoked ==
    last.fn = "downloadReport" => last.out.created \subseteq last.out.revoked

\* the arguments and the result of the validateForm call just made
FormData == last.arg[1]
Rules == last.arg[2]

\* the messages the validators of the i-th field of the rules report, in
\* validator order
ReportedBy(i) ==
    SelectSeq([j \in 1..Len(Rules[i][2]) |->
                    Validate(Rules[i][2][j], Get(FormData, Rules[i][1]))],
              LAMBDA msg : msg # null)

\* the list the result holds for a field, empty when the field is not in it
ErrorsOf(field) ==
    IF \E k \in 1..Len(last.out.entries) : last.out.entries[k][1] = field
    THEN (CHOOSE e \in {last.out.entries[k] : k \in 1..Len(last.out.entries)} :
                e[1] = field)[2]
    ELSE <<>>

\* C22: validateForm returns, for every form and every rules object: null
\* exactly when no configured validator reports an error; otherwise one entry
\* per field with an error, holding the messages of all that field's
\* validators in validator order, and no entry with an empty list.
C22_ValidateFormCollectsAllErrors ==
    last.fn = "validateForm" =>
        LET failing == {i \in DOMAIN Rules : ReportedBy(i) # <<>>}
        IN /\ ~last.out.threw
           /\ last.out.isNull <=> failing = {}
           /\ last.out.isNull => last.out.entries = <<>>
           /\ Len(last.out.entries) = Cardinality(failing)
           /\ \A k \in 1..Len(last.out.entries) : last.out.entries[k][2] # <<>>
           /\ \A i \in DOMAIN Rules : ErrorsOf(Rules[i][1]) = ReportedBy(i)

\* C23: for a field whose value is empty or absent, validateForm returns and
\* the only errors it reports for the field are those of required, one per
\* required validator configured; with the validators [required, email] and
\* the value '' the field's errors are exactly ['Este campo es requerido'].
C23_OnlyRequiredFlagsEmpty ==
    last.fn = "validateForm" =>
        \A i \in DOMAIN Rules :
            LET field == Rules[i][1]
                value == Get(FormData, field)
                validators == Rules[i][2]
                required == {j \in 1..Len(validators) : validators[j].name = "required"}
            IN (IsAbsent(value) \/ value = JsString(<<>>)) =>
                /\ ~last.out.threw
                /\ Len(ErrorsOf(field)) = Cardinality(required)
                /\ \A k \in 1..Len(ErrorsOf(field)) : ErrorsOf(field)[k] = RequiredMsg
                /\ (/\ Len(validators) = 2
                    /\ validators[1].name = "required" /\ validators[2].name = "email"
                    /\ value = JsString(<<>>))
                        => ErrorsOf(field) = <<RequiredMsg>>

\* C24: the round trip formatForDjango(formatModelData(record)) returns the
\* record's first_name, last_name, email and skills unchanged.
C24_RoundTripKeepsNameEmailSkills ==
    last.fn = "formatForDjango" =>
        /\ last.out.first_name = last.arg.first_name
        /\ last.out.last_name = last.arg.last_name
        /\ last.out.email = last.arg.email
        /\ last.out.skills = last.arg.skills

\* C28: once logout() has cleared the session, and until a login succeeds,
\* no operation that was in flight writes an access token back to storage.
C28_NoTokenWrittenAfterLogout ==
    loggedOut => storage.authToken = null

\* C29: RecruitmentAPI's in-memory token always equals the stored authToken;
\* when a 401 has run handleUnauthorized, the instance holds no token (so its
\* next requests carry no Authorization header) and no refresh token is stored.
C29_MemoryTokenMatchesStorage ==
    /\ rtoken = storage.authToken
    /\ (\E e \in Entries : e.fn = "rrequest" /\ e.result = Thrown(UnauthorizedMsg))
            => /\ rtoken = null
               /\ RGetHeaders(rtoken)["Authorization"] = Absent
               /\ storage.refreshToken = null

\* C30: no request of a DjangoAPI instance is sent while the CSRF fetch its
\* constructor started is still pending.
C30_NoRequestBeforeCsrfFetchSettles ==
    [][\A t \in Tasks :
        (Sends(t) /\ Top(tasks'[t]).fn = "request") => ~csrfPending]_vars

\* C25: at most one socket created by the instance is connecting or open at
\* any time, whatever the page's connect() and disconnect() calls, the
\* sockets' closes and the pending reconnect timers.
C25_AtMostOneLiveSocket ==
    Live(ws) <= 1

\* C26: after disconnect() on an open socket, and until the page calls
\* connect() again, no reconnect is pending and no socket of the instance is
\* connecting or open.
C26_NoReconnectAfterDisconnect ==
    ws.userClosed => (ws.timers = <<>> /\ Live(ws) = 0)

\* callbacks that call on(), off() or disconnect() of the channel
Reentrant == {"cbOn", "cbOff", "cbDisconnect"}

\* C27: an emit in which a listener ran that calls on(), off() or
\* disconnect() invokes exactly the callbacks registered for the event when
\* the emit started, each once, in registration order.
C27_ReentrantEmitUsesSnapshot ==
    (last.fn = "emit" /\ \E i \in 1..Len(last.out.invoked) :
                                last.out.invoked[i] \in Reentrant)
        => last.out.invoked = last.arg[2][last.arg[1]]

====
